---- MODULE Spec2Model ----
(***************************************************************************)
(* homer-sync: one reconciliation cycle (fetch, filter, extract, render,   *)
(* publish) and the daemon loop around it, from src/src/homer_sync.py.     *)
(*                                                                         *)
(* Text on which the code works character by character (the enable flag,   *)
(* hostnames, suffixes, namespace and group names, the sort annotation,    *)
(* item names) is a sequence of one-character strings.  Text the code only *)
(* stores and compares (icons, subtitles, titles) is a TLA+ string.        *)
(***************************************************************************)
EXTENDS Integers, Sequences, FiniteSets, TLC

VARIABLES
    pc,                 \* position of the process in main / run_once
    cfg,                \* the Config loaded at startup
    ns_map,             \* run_once: namespaces fetched this cycle, in list order
    routes,             \* run_once: HTTPRoutes fetched this cycle
    i,                  \* run_once: index of the next route of the for loop
    group_icon_cache,   \* run_once: group name -> icon, as a sequence of pairs
    items,              \* run_once: ServiceItems collected so far
    rendered,           \* run_once: the rendered manifest, <<>> before rendering
    configmap,          \* the API server's object: <<>> (absent) or <<object>>
    outcome,            \* what the last cycle logged: its status and failing step
    args,               \* unit harnesses: the arguments of the call under test
    ret                 \* unit harnesses: what the calls returned

vars == <<pc, cfg, ns_map, routes, i, group_icon_cache, items, rendered,
          configmap, outcome, args, ret>>

(***************************************************************************)
(* Bounds of the model.                                                    *)
(***************************************************************************)
MaxRoutes == 2
MaxHostnames == 2
MaxParentRefs == 2
MaxNamespaces == 2

(***************************************************************************)
(* Characters and the str methods the code calls.                          *)
(***************************************************************************)
Alphabet ==
    <<" ", "+", "-", ".", "/",
      "0","1","2","3","4","5","6","7","8","9", ":",
      "A","B","C","D","E","F","G","H","I","J","K","L","M",
      "N","O","P","Q","R","S","T","U","V","W","X","Y","Z",
      "a","b","c","d","e","f","g","h","i","j","k","l","m",
      "n","o","p","q","r","s","t","u","v","w","x","y","z">>

Ord(c) == CHOOSE k \in 1..Len(Alphabet) : Alphabet[k] = c

UpperChars  == {Alphabet[k] : k \in Ord("A")..Ord("Z")}
LowerChars  == {Alphabet[k] : k \in Ord("a")..Ord("z")}
DigitChars  == {Alphabet[k] : k \in Ord("0")..Ord("9")}
CaseOffset  == Ord("a") - Ord("A")

IsUpper(c) == c \in UpperChars
IsLower(c) == c \in LowerChars
IsCased(c) == IsUpper(c) \/ IsLower(c)
IsDigit(c) == c \in DigitChars

LowerChar(c) == IF IsUpper(c) THEN Alphabet[Ord(c) + CaseOffset] ELSE c
UpperChar(c) == IF IsLower(c) THEN Alphabet[Ord(c) - CaseOffset] ELSE c

\* str.lower()
Lower(s) == [k \in 1..Len(s) |-> LowerChar(s[k])]

\* str.replace(old, new) for one-character old and new
Replace(s, old, new) == [k \in 1..Len(s) |-> IF s[k] = old THEN new ELSE s[k]]

\* str.title(): a cased character is upper-cased when the character before it
\* is not cased, lower-cased when it is; other characters are kept
Title(s) ==
    [k \in 1..Len(s) |->
        IF ~IsCased(s[k]) THEN s[k]
        ELSE IF k > 1 /\ IsCased(s[k-1]) THEN LowerChar(s[k])
        ELSE UpperChar(s[k])]

\* str.endswith(suffix)
EndsWith(s, suffix) ==
    /\ Len(suffix) <= Len(s)
    /\ \A k \in 1..Len(suffix) : s[Len(s) - Len(suffix) + k] = suffix[k]

\* str < str, by code point
StrLess(a, b) ==
    \E k \in 1..(Len(b)) :
        /\ \A j \in 1..(k-1) : j <= Len(a) /\ a[j] = b[j]
        /\ \/ k = Len(a) + 1
           \/ k <= Len(a) /\ Ord(a[k]) < Ord(b[k])

RECURSIVE DigitsValue(_)
DigitsValue(s) ==
    IF s = <<>> THEN 0
    ELSE 10 * DigitsValue(SubSeq(s, 1, Len(s) - 1)) + (Ord(s[Len(s)]) - Ord("0"))

RECURSIVE Strip(_)
Strip(s) ==
    IF s = <<>> THEN s
    ELSE IF Head(s) = " " THEN Strip(Tail(s))
    ELSE IF s[Len(s)] = " " THEN Strip(SubSeq(s, 1, Len(s) - 1))
    ELSE s

\* int(str): surrounding blanks, an optional sign, one or more digits;
\* anything else raises ValueError
ParseInt(s) ==
    LET t      == Strip(s)
        signed == t # <<>> /\ Head(t) \in {"+", "-"}
        digits == IF signed THEN Tail(t) ELSE t
    IN  IF digits # <<>> /\ \A k \in 1..Len(digits) : IsDigit(digits[k])
        THEN [ok |-> TRUE,
              value |-> IF signed /\ Head(t) = "-"
                        THEN 0 - DigitsValue(digits) ELSE DigitsValue(digits)]
        ELSE [ok |-> FALSE, value |-> 0]

(***************************************************************************)
(* dicts: an annotation mapping is a function on the keys that are         *)
(* present; an insertion-ordered dict is a sequence of <<key, value>>.     *)
(***************************************************************************)
ANNOTATION_PREFIX == "home.mirceanton.com"
Key(suffix) == <<ANNOTATION_PREFIX, suffix>>

\* dict.get(key, default)
Get(d, key, default) == IF key \in DOMAIN d THEN d[key] ELSE default

NoAnnotations == [k \in {} |-> <<>>]

\* key in dict, for an ordered dict
Has(od, key) == \E k \in 1..Len(od) : od[k][1] = key
\* dict[key]
At(od, key) == od[CHOOSE k \in 1..Len(od) : od[k][1] = key][2]
\* dict[key] = value: a present key keeps its position
Put(od, key, value) ==
    IF Has(od, key)
    THEN [k \in 1..Len(od) |-> IF od[k][1] = key THEN <<key, value>> ELSE od[k]]
    ELSE Append(od, <<key, value>>)

(***************************************************************************)
(* Annotation resolver                                                     *)
(***************************************************************************)
DefaultIcon == "fas fa-globe"

namespace_group_name(ns_name, ns_annotations) ==
    LET override == Get(ns_annotations, Key("group"), <<>>)
    IN  IF override # <<>> THEN override
        ELSE Title(Replace(ns_name, "-", " "))

namespace_group_icon(ns_annotations) ==
    Get(ns_annotations, Key("group-icon"), DefaultIcon)

(***************************************************************************)
(* Inclusion filter                                                        *)
(***************************************************************************)
has_filters(c) == c.gateway_names # <<>> \/ c.domain_suffixes # <<>>

\* should_include comparing the enable annotation without lower-casing it
should_include_case_sensitive(route, c) ==
    LET enabled_annotation == Get(route.annotations, Key("enabled"), <<>>)
        gateway_matched ==
            \E r \in 1..Len(route.parentRefs) :
                \E g \in 1..Len(c.gateway_names) :
                    route.parentRefs[r] = c.gateway_names[g]
        suffix_matched ==
            \E h \in 1..Len(route.hostnames) :
                \E s \in 1..Len(c.domain_suffixes) :
                    EndsWith(route.hostnames[h], c.domain_suffixes[s])
    IN  IF has_filters(c)
        THEN IF enabled_annotation = <<"f","a","l","s","e">> THEN FALSE
             ELSE IF c.gateway_names # <<>> /\ ~gateway_matched THEN FALSE
             ELSE IF c.domain_suffixes # <<>> /\ ~suffix_matched THEN FALSE
             ELSE TRUE
        ELSE enabled_annotation = <<"t","r","u","e">>

\* should_include leaving a route without hostnames to the extractor
should_include_hostless_pass(route, c) ==
    LET enabled_annotation == Lower(Get(route.annotations, Key("enabled"), <<>>))
        gateway_matched ==
            \E r \in 1..Len(route.parentRefs) :
                \E g \in 1..Len(c.gateway_names) :
                    route.parentRefs[r] = c.gateway_names[g]
        suffix_matched ==
            \/ route.hostnames = <<>>
            \/ \E h \in 1..Len(route.hostnames) :
                \E s \in 1..Len(c.domain_suffixes) :
                    EndsWith(route.hostnames[h], c.domain_suffixes[s])
    IN  IF has_filters(c)
        THEN IF enabled_annotation = <<"f","a","l","s","e">> THEN FALSE
             ELSE IF c.gateway_names # <<>> /\ ~gateway_matched THEN FALSE
             ELSE IF c.domain_suffixes # <<>> /\ ~suffix_matched THEN FALSE
             ELSE TRUE
        ELSE enabled_annotation = <<"t","r","u","e">>

should_include(route, c) ==
    LET enabled_annotation == Lower(Get(route.annotations, Key("enabled"), <<>>))
        gateway_matched ==
            \E r \in 1..Len(route.parentRefs) :
                \E g \in 1..Len(c.gateway_names) :
                    route.parentRefs[r] = c.gateway_names[g]
        suffix_matched ==
            \E h \in 1..Len(route.hostnames) :
                \E s \in 1..Len(c.domain_suffixes) :
                    EndsWith(route.hostnames[h], c.domain_suffixes[s])
    IN  IF has_filters(c)
        THEN IF enabled_annotation = <<"f","a","l","s","e">> THEN FALSE
             ELSE IF c.gateway_names # <<>> /\ ~gateway_matched THEN FALSE
             ELSE IF c.domain_suffixes # <<>> /\ ~suffix_matched THEN FALSE
             ELSE TRUE
        ELSE enabled_annotation = <<"t","r","u","e">>

(***************************************************************************)
(* Item extraction                                                         *)
(***************************************************************************)
NoItem ==
    [name |-> <<>>, subtitle |-> "", url |-> <<>>, icon |-> "",
     group |-> <<>>, group_icon |-> "", sort |-> 0]

HttpsScheme == <<"h","t","t","p","s",":","/","/">>

\* The icon of the first namespace of ns_map whose candidate group name is
\* the overriding group.  The candidate is computed from the ROUTE's
\* namespace name and the scanned namespace's annotations (line 237).
ScanGroupIcon(group, ns_name, nsm) ==
    LET hits == {k \in 1..Len(nsm) : namespace_group_name(ns_name, nsm[k][2]) = group}
    IN  IF hits = {} THEN DefaultIcon
        ELSE namespace_group_icon(nsm[CHOOSE k \in hits : \A j \in hits : k <= j][2])

\* Returns status "skipped" (None), "item", or "raised" (ValueError of int());
\* cache is the group_icon_cache as the call leaves it.
extract_item(route, nsm, cache) ==
    LET annotations    == route.annotations
        ns_name        == route.namespace
        route_name     == route.name
        hostnames      == route.hostnames
        ns_annotations == IF Has(nsm, ns_name) THEN At(nsm, ns_name) ELSE NoAnnotations
        group_override == Get(annotations, Key("group"), <<>>)
        group          == IF group_override # <<>> THEN group_override
                          ELSE namespace_group_name(ns_name, ns_annotations)
        cache2         == IF Has(cache, group) THEN cache
                          ELSE IF group_override # <<>>
                          THEN Put(cache, group, ScanGroupIcon(group, ns_name, nsm))
                          ELSE Put(cache, group, namespace_group_icon(ns_annotations))
        sort           == ParseInt(Get(annotations, Key("sort"), <<"0">>))
    IN  IF hostnames = <<>>
        THEN [status |-> "skipped", item |-> NoItem, cache |-> cache]
        ELSE IF ~sort.ok
        THEN [status |-> "raised", item |-> NoItem, cache |-> cache2]
        ELSE [status |-> "item",
              item   |-> [name       |-> Get(annotations, Key("name"), route_name),
                          subtitle   |-> Get(annotations, Key("subtitle"), ""),
                          url        |-> HttpsScheme \o hostnames[1],
                          icon       |-> Get(annotations, Key("icon"), ""),
                          group      |-> group,
                          group_icon |-> At(cache2, group),
                          sort       |-> sort.value],
              cache  |-> cache2]

(***************************************************************************)
(* Rendering                                                               *)
(***************************************************************************)
\* key=lambda i: (i.sort, i.name)
ItemLess(a, b) == a.sort < b.sort \/ (a.sort = b.sort /\ StrLess(a.name, b.name))

\* list.sort is stable: x goes behind every element that is not greater
InsertSorted(sorted, x) ==
    LET before == {k \in 1..Len(sorted) : ~ItemLess(x, sorted[k])}
        n      == Cardinality(before)
    IN  SubSeq(sorted, 1, n) \o <<x>> \o SubSeq(sorted, n + 1, Len(sorted))

RECURSIVE SortItems(_)
SortItems(s) ==
    IF s = <<>> THEN <<>>
    ELSE InsertSorted(SortItems(SubSeq(s, 1, Len(s) - 1)), s[Len(s)])

RECURSIVE SelectGroup(_, _)
SelectGroup(s, g) ==
    IF s = <<>> THEN <<>>
    ELSE IF Head(s).group = g THEN <<Head(s)>> \o SelectGroup(Tail(s), g)
    ELSE SelectGroup(Tail(s), g)

\* groups.setdefault(item.group, []).append(item): groups in first-seen order
RECURSIVE GroupNames(_)
GroupNames(s) ==
    IF s = <<>> THEN <<>>
    ELSE LET front == GroupNames(SubSeq(s, 1, Len(s) - 1))
             g     == s[Len(s)].group
         IN  IF \E k \in 1..Len(front) : front[k] = g THEN front ELSE Append(front, g)

GroupItems(its) ==
    LET names == GroupNames(its)
    IN  [k \in 1..Len(names) |-> <<names[k], SortItems(SelectGroup(its, names[k]))>>]

\* The manifest the template produces from its four inputs.  The template is
\* a file outside the program: the text is taken to determine its inputs.
render_config(its, c) ==
    <<[title |-> c.title, subtitle |-> c.subtitle, columns |-> c.columns],
      GroupItems(its)>>

(***************************************************************************)
(* ConfigMap management                                                    *)
(***************************************************************************)
ConfigKey == "config.yml"
EmptyText == <<>>

\* sha256 of the content: equal digests only for equal contents
_config_hash(content) == <<"sha256", content>>

\* sync_configmap writing without comparing the digests
sync_configmap_always_write(store, c, text, read_resp, write_resp) ==
    IF read_resp # "ok"
    THEN [store |-> store, result |-> "Raised", writes |-> 0]
    ELSE IF store # <<>>
    THEN IF write_resp = "ok"
         THEN [store  |-> <<[store[1] EXCEPT !.data = (ConfigKey :> text)]>>,
               result |-> "Updated", writes |-> 1]
         ELSE [store |-> store, result |-> "Raised", writes |-> 1]
    ELSE IF write_resp = "ok"
         THEN [store  |-> <<[metadata |-> [name      |-> c.configmap_name,
                                           namespace |-> c.configmap_namespace,
                                           labels    |-> {}],
                             data     |-> (ConfigKey :> text)]>>,
               result |-> "Created", writes |-> 1]
         ELSE [store |-> store, result |-> "Raised", writes |-> 1]

\* store is <<>> (the read answers 404) or <<object>>.  read_resp and
\* write_resp are the API's answers, "ok" or "error" (an ApiException other
\* than 404, or a transport error).  With no other writer the replace of an
\* object just read cannot answer 404.  writes counts replace/create calls.
sync_configmap(store, c, text, read_resp, write_resp) ==
    IF read_resp # "ok"
    THEN [store |-> store, result |-> "Raised", writes |-> 0]
    ELSE IF store # <<>>
    THEN LET existing        == store[1]
             current_content == Get(existing.data, ConfigKey, EmptyText)
         IN  IF _config_hash(current_content) = _config_hash(text)
             THEN [store |-> store, result |-> "Unchanged", writes |-> 0]
             ELSE IF write_resp = "ok"
             THEN [store  |-> <<[existing EXCEPT !.data = (ConfigKey :> text)]>>,
                   result |-> "Updated", writes |-> 1]
             ELSE [store |-> store, result |-> "Raised", writes |-> 1]
    ELSE IF write_resp = "ok"
         THEN [store  |-> <<[metadata |-> [name      |-> c.configmap_name,
                                           namespace |-> c.configmap_namespace,
                                           labels    |-> {}],
                             data     |-> (ConfigKey :> text)]>>,
               result |-> "Created", writes |-> 1]
         ELSE [store |-> store, result |-> "Raised", writes |-> 1]

(***************************************************************************)
(* The cluster contents and configurations the model draws from.           *)
(***************************************************************************)
S_tools      == <<"t","o","o","l","s">>
S_media_apps == <<"m","e","d","i","a","-","a","p","p","s">>
G_Tools      == <<"T","o","o","l","s">>
G_Media_Apps == <<"M","e","d","i","a"," ","A","p","p","s">>
H_wiki       == <<"w","i","k","i",".","x">>
H_jelly      == <<"j","e","l","l","y",".","x">>
H_other      == <<"a","p","p",".","o","r","g">>
Sfx_x        == <<".","x">>
E_true       == <<"t","r","u","e">>
E_True       == <<"T","r","u","e">>
E_false      == <<"f","a","l","s","e">>
E_FALSE      == <<"F","A","L","S","E">>
E_yes        == <<"y","e","s">>
GW_envoy     == <<"e","n","v","o","y">>
GW_nginx     == <<"n","g","i","n","x">>

Config(gateways, suffixes, daemon) ==
    [gateway_names       |-> gateways,
     domain_suffixes     |-> suffixes,
     configmap_name      |-> "homer-config",
     configmap_namespace |-> "default",
     daemon_mode         |-> daemon,
     title               |-> "Home Dashboard",
     subtitle            |-> "",
     columns             |-> 5]

Route(ns, name, annotations, hostnames, parentRefs) ==
    [namespace |-> ns, name |-> name, annotations |-> annotations,
     hostnames |-> hostnames, parentRefs |-> parentRefs]

\* Namespace lists the API may return; the annotations differ from one
\* cycle to the next.
NsMaps ==
    { << <<S_tools, (Key("group-icon") :> "fas fa-wrench")>>,
         <<S_media_apps, NoAnnotations>> >>,
      << <<S_tools, NoAnnotations>>,
         <<S_media_apps, (Key("group") :> G_Tools) @@ (Key("group-icon") :> "fas fa-film")>> >> }

R_wiki ==
    Route(S_tools, <<"w","i","k","i">>, (Key("enabled") :> E_true), <<H_wiki>>, <<GW_envoy>>)
R_jelly ==
    Route(S_media_apps, <<"j","e","l","l","y">>,
          (Key("enabled") :> E_True) @@ (Key("group") :> G_Tools) @@ (Key("sort") :> <<"-","1">>),
          <<H_jelly, H_other>>, <<GW_envoy>>)
R_badsort ==
    Route(S_tools, <<"b","a","d">>,
          (Key("enabled") :> E_true) @@ (Key("sort") :> <<"a","b","c">>),
          <<H_wiki>>, <<GW_envoy>>)
R_nohost ==
    Route(S_tools, <<"n","o","h","o","s","t">>, (Key("enabled") :> E_true), <<>>, <<GW_envoy>>)

MainRoutes == {R_wiki, R_jelly, R_badsort, R_nohost}

RouteLists == UNION {[1..n -> MainRoutes] : n \in 0..MaxRoutes}

\* Opt-in mode or a suffix filter, as a daemon or as a single run.
MainCfgs ==
    {Config(<<>>, suffixes, daemon) : suffixes \in {<<>>, <<Sfx_x>>}, daemon \in BOOLEAN}

InitialStores ==
    { <<>>,
      <<[metadata |-> [name |-> "homer-config", namespace |-> "default", labels |-> {"app"}],
         data     |-> (ConfigKey :> EmptyText) @@ ("extra.yml" :> <<"x">>)]>> }

ApiResponses == {"ok", "error"}

(***************************************************************************)
(* main and run_once                                                       *)
(***************************************************************************)
Running == [status |-> "running", step |-> "", result |-> ""]

\* main without the try/except around run_once
AfterRaise_uncaught(c) == "crashed"

\* Where an exception raised inside run_once takes main: the daemon loop
\* catches Exception and goes on to sleep; a single run lets it through.
AfterRaise(c) == IF c.daemon_mode THEN "sleep" ELSE "crashed"

\* Where a return of run_once takes main.
AfterReturn(c) == IF c.daemon_mode THEN "sleep" ELSE "exited"

Raise(step) ==
    /\ pc' = AfterRaise(cfg)
    /\ outcome' = [status |-> "error", step |-> step, result |-> ""]

\* run_once keeping the cache of the cycle before
NewGroupIconCache_reused(previous) == previous

\* group_icon_cache: dict[str, str] = {}
NewGroupIconCache(previous) == <<>>

Init ==
    /\ pc = "fetch"
    /\ cfg \in MainCfgs
    /\ ns_map = <<>>
    /\ routes = <<>>
    /\ i = 1
    /\ group_icon_cache = <<>>
    /\ items = <<>>
    /\ rendered = EmptyText
    /\ configmap \in InitialStores
    /\ outcome = Running
    /\ args = <<>>
    /\ ret = <<>>

\* fetch_namespaces and fetch_httproutes, then the locals of run_once.  An
\* ApiException of a list call is caught and gives the empty result; any
\* other exception leaves run_once.
Fetch ==
    /\ pc = "fetch"
    /\ \E raises \in BOOLEAN, nsm \in NsMaps \cup {<<>>}, rs \in RouteLists :
        IF raises
        THEN /\ Raise("fetch")
             /\ UNCHANGED <<ns_map, routes, i, group_icon_cache, items, rendered>>
        ELSE /\ ns_map' = nsm
             /\ routes' = rs
             /\ group_icon_cache' = NewGroupIconCache(group_icon_cache)
             /\ items' = <<>>
             /\ rendered' = EmptyText
             /\ i' = 1
             /\ pc' = IF rs = <<>> THEN "render" ELSE "loop"
             /\ UNCHANGED outcome
    /\ UNCHANGED <<cfg, configmap, args, ret>>

\* The loop swallowing the error of extract_item and leaving the loop
ProcessRoute_break ==
    /\ pc = "loop"
    /\ LET route == routes[i]
           r     == extract_item(route, ns_map, group_icon_cache)
           next  == IF i + 1 > Len(routes) THEN "render" ELSE "loop"
       IN  IF ~should_include(route, cfg)
           THEN /\ i' = i + 1
                /\ pc' = next
                /\ UNCHANGED <<group_icon_cache, items, outcome>>
           ELSE IF r.status = "raised"
           THEN /\ pc' = "render"
                /\ group_icon_cache' = r.cache
                /\ UNCHANGED <<i, items, outcome>>
           ELSE /\ i' = i + 1
                /\ pc' = next
                /\ group_icon_cache' = r.cache
                /\ items' = IF r.status = "item" THEN Append(items, r.item) ELSE items
                /\ UNCHANGED outcome
    /\ UNCHANGED <<cfg, ns_map, routes, rendered, configmap, args, ret>>

\* One iteration of "for route in routes".
ProcessRoute ==
    /\ pc = "loop"
    /\ LET route == routes[i]
           r     == extract_item(route, ns_map, group_icon_cache)
           next  == IF i + 1 > Len(routes) THEN "render" ELSE "loop"
       IN  IF ~should_include(route, cfg)
           THEN /\ i' = i + 1
                /\ pc' = next
                /\ UNCHANGED <<group_icon_cache, items, outcome>>
           ELSE IF r.status = "raised"
           THEN /\ Raise("extract")
                /\ group_icon_cache' = r.cache
                /\ UNCHANGED <<i, items>>
           ELSE /\ i' = i + 1
                /\ pc' = next
                /\ group_icon_cache' = r.cache
                /\ items' = IF r.status = "item" THEN Append(items, r.item) ELSE items
                /\ UNCHANGED outcome
    /\ UNCHANGED <<cfg, ns_map, routes, rendered, configmap, args, ret>>

\* render_config; get_template raises when the template is missing or
\* does not parse.
Render ==
    /\ pc = "render"
    /\ \E template_ok \in BOOLEAN :
        IF template_ok
        THEN /\ rendered' = render_config(items, cfg)
             /\ pc' = "publish"
             /\ UNCHANGED outcome
        ELSE /\ Raise("render")
             /\ UNCHANGED rendered
    /\ UNCHANGED <<cfg, ns_map, routes, i, group_icon_cache, items, configmap, args, ret>>

\* sync_configmap, then the return of run_once.
Publish ==
    /\ pc = "publish"
    /\ \E read_resp \in ApiResponses, write_resp \in ApiResponses :
        LET r == sync_configmap(configmap, cfg, rendered, read_resp, write_resp)
        IN  /\ configmap' = r.store
            /\ IF r.result = "Raised"
               THEN Raise("publish")
               ELSE /\ pc' = AfterReturn(cfg)
                    /\ outcome' = [status |-> "ok", step |-> "", result |-> r.result]
    /\ UNCHANGED <<cfg, ns_map, routes, i, group_icon_cache, items, rendered, args, ret>>

\* time.sleep(cfg.scan_interval), then the next run_once of "while True".
\* The frame of the finished run_once is gone; the last cache is left as it
\* is until run_once builds the next one.
Sleep ==
    /\ pc = "sleep"
    /\ pc' = "fetch"
    /\ outcome' = Running
    /\ ns_map' = <<>>
    /\ routes' = <<>>
    /\ i' = 1
    /\ items' = <<>>
    /\ rendered' = EmptyText
    /\ UNCHANGED <<cfg, group_icon_cache, configmap, args, ret>>

Next == Fetch \/ ProcessRoute \/ Render \/ Publish \/ Sleep

Spec == Init /\ [][Next]_vars

\* time.sleep returns once the interval has passed, and the loop then
\* calls run_once again.
FairSpec == Spec /\ WF_vars(Sleep)

(***************************************************************************)
(* Unit harnesses: one call, or a short sequence of calls, of a function   *)
(* on arguments drawn from bounded sets.  args holds the arguments, ret    *)
(* the returned values in call order.                                      *)
(***************************************************************************)
SeqsUpTo(S, n) == UNION {[1..m -> S] : m \in 0..n}

PartialMaps(keys, Values(_)) ==
    UNION {{f \in [present -> UNION {Values(k) : k \in present}] :
                \A k \in present : f[k] \in Values(k)} : present \in SUBSET keys}

IdleLocals ==
    /\ ns_map = <<>>
    /\ routes = <<>>
    /\ i = 1
    /\ group_icon_cache = <<>>
    /\ items = <<>>
    /\ rendered = EmptyText
    /\ outcome = Running

UnchangedLocals ==
    UNCHANGED <<ns_map, routes, i, group_icon_cache, items, rendered, outcome>>

(* ---- should_include, then extract_item as run_once chains them ---- *)
EnabledValues == {E_true, E_True, E_false, E_FALSE, E_yes, <<>>}

FilterAnnotationValues(k) == EnabledValues

FilterRoutes ==
    {Route(S_tools, <<"w","i","k","i">>, a, h, p) :
        a \in PartialMaps({Key("enabled")}, FilterAnnotationValues),
        h \in SeqsUpTo({H_wiki, H_other}, MaxHostnames),
        p \in SeqsUpTo({GW_envoy, GW_nginx}, MaxParentRefs)}

FilterCfgs ==
    {Config(g, s, FALSE) : g \in {<<>>, <<GW_envoy>>}, s \in {<<>>, <<Sfx_x>>}}

FilterInit ==
    /\ pc = "call"
    /\ cfg \in FilterCfgs
    /\ args \in {[route |-> r] : r \in FilterRoutes}
    /\ ret = <<>>
    /\ configmap = <<>>
    /\ IdleLocals

FilterCall ==
    /\ pc = "call"
    /\ ret' = <<should_include(args.route, cfg)>>
    /\ pc' = "returned"
    /\ UNCHANGED <<cfg, args, configmap>>
    /\ UnchangedLocals

\* "item = extract_item(...)" runs only for a route the filter let through
FilterExtractCall ==
    /\ pc = "returned"
    /\ ret[1]
    /\ ret' = Append(ret, extract_item(args.route, <<>>, <<>>).status)
    /\ pc' = "extracted"
    /\ UNCHANGED <<cfg, args, configmap>>
    /\ UnchangedLocals

FilterNext == FilterCall \/ FilterExtractCall

FilterSpec == FilterInit /\ [][FilterNext]_vars

(* ---- namespace_group_name and namespace_group_icon ---- *)
HarnessCfg == Config(<<>>, <<>>, FALSE)

NsAnnotations ==
    {g @@ ic :
        g  \in {NoAnnotations} \cup {Key("group") :> v : v \in {<<>>, G_Tools, G_Media_Apps}},
        ic \in {NoAnnotations} \cup {Key("group-icon") :> v : v \in {"", "fas fa-film", DefaultIcon}}}

NsNames == {S_tools, S_media_apps, <<"k","u","b","e","-","s","y","s","t","e","m">>}

ResolverInit ==
    /\ pc = "call"
    /\ cfg = HarnessCfg
    /\ args \in [ns_name : NsNames, ns_annotations : NsAnnotations]
    /\ ret = <<>>
    /\ configmap = <<>>
    /\ IdleLocals

GroupNameCall ==
    /\ pc = "call"
    /\ ret' = <<"group_name", namespace_group_name(args.ns_name, args.ns_annotations)>>
    /\ pc' = "returned"
    /\ UNCHANGED <<cfg, args, configmap>>
    /\ UnchangedLocals

GroupIconCall ==
    /\ pc = "call"
    /\ ret' = <<"group_icon", namespace_group_icon(args.ns_annotations)>>
    /\ pc' = "returned"
    /\ UNCHANGED <<cfg, args, configmap>>
    /\ UnchangedLocals

ResolverNext == GroupNameCall \/ GroupIconCall

ResolverSpec == ResolverInit /\ [][ResolverNext]_vars

(* ---- extract_item ---- *)
ExtractAnnotationValues(k) ==
    IF k = Key("group") THEN {<<>>, G_Tools, G_Media_Apps}
    ELSE {<<"7">>, <<"a","b","c">>}

ExtractRoutes ==
    {Route(ns, <<"a","p","p">>, a, h, <<>>) :
        ns \in {S_tools, S_media_apps},
        a \in PartialMaps({Key("group"), Key("sort")}, ExtractAnnotationValues),
        h \in SeqsUpTo({H_wiki}, 1)}

\* Namespaces in list order, each name once
ExtractNamespaces ==
    {<<S_tools, NoAnnotations>>,
     <<S_tools, (Key("group-icon") :> "fas fa-wrench")>>,
     <<S_media_apps, (Key("group-icon") :> "fas fa-film")>>,
     <<S_media_apps, (Key("group") :> G_Tools) @@ (Key("group-icon") :> "fas fa-film")>>}

ExtractNsMaps ==
    {nsm \in SeqsUpTo(ExtractNamespaces, MaxNamespaces) :
        \A a \in 1..Len(nsm), b \in 1..Len(nsm) : a # b => nsm[a][1] # nsm[b][1]}

\* The cache as the call finds it: empty, or holding the group already
ExtractCaches == {<<>>, << <<G_Tools, DefaultIcon>> >>}

ExtractInit ==
    /\ pc = "call"
    /\ cfg = HarnessCfg
    /\ args \in [route : ExtractRoutes, ns_map : ExtractNsMaps, cache : ExtractCaches]
    /\ ret = <<>>
    /\ configmap = <<>>
    /\ IdleLocals

ExtractCall ==
    /\ pc = "call"
    /\ ret' = <<extract_item(args.route, args.ns_map, args.cache)>>
    /\ pc' = "returned"
    /\ UNCHANGED <<cfg, args, configmap>>
    /\ UnchangedLocals

ExtractNext == ExtractCall

ExtractSpec == ExtractInit /\ [][ExtractNext]_vars

(* ---- sync_configmap, called twice with the same text ---- *)
Texts == {EmptyText, <<"m1">>, <<"m2">>}

StoreDataValues(k) == IF k = ConfigKey THEN Texts ELSE {<<"x">>}

Stores ==
    {<<>>} \cup
    {<<[metadata |-> [name |-> "homer-config", namespace |-> "default", labels |-> l],
        data     |-> d]>> :
        l \in {{}, {"app"}},
        d \in PartialMaps({ConfigKey, "extra.yml"}, StoreDataValues)}

PublishInit ==
    /\ pc = "call"
    /\ cfg = HarnessCfg
    /\ args \in [rendered : Texts, store : Stores]
    /\ configmap = args.store
    /\ ret = <<>>
    /\ IdleLocals

PublishCall ==
    /\ pc = "call"
    /\ \E read_resp \in ApiResponses, write_resp \in ApiResponses :
        LET r == sync_configmap(configmap, cfg, args.rendered, read_resp, write_resp)
        IN  /\ configmap' = r.store
            /\ ret' = Append(ret, [result |-> r.result, writes |-> r.writes,
                                   before |-> configmap, after |-> r.store])
    /\ pc' = IF Len(ret) + 1 = 2 THEN "returned" ELSE "call"
    /\ UNCHANGED <<cfg, args>>
    /\ UnchangedLocals

PublishNext == PublishCall

PublishSpec == PublishInit /\ [][PublishNext]_vars

(***************************************************************************)
(* Properties of the inclusion filter (FilterSpec)                         *)
(***************************************************************************)
\* The spellings whose lower-cased form is the given word
Spellings(word) ==
    {s \in [1..Len(word) -> {Alphabet[k] : k \in 1..Len(Alphabet)}] :
        \A k \in 1..Len(word) : s[k] \in {word[k], UpperChar(word[k])}}

EnableOf(route) == Get(route.annotations, Key("enabled"), <<>>)

ExcludedByEnable(route, c) ==
    IF c.gateway_names = <<>> /\ c.domain_suffixes = <<>>
    THEN EnableOf(route) \notin Spellings(E_true)
    ELSE EnableOf(route) \in Spellings(E_false)

ExcludedByGateway(route, c) ==
    /\ c.gateway_names # <<>>
    /\ \A r \in 1..Len(route.parentRefs) :
        \A g \in 1..Len(c.gateway_names) : route.parentRefs[r] # c.gateway_names[g]

ExcludedBySuffix(route, c) ==
    /\ c.domain_suffixes # <<>>
    /\ \A h \in 1..Len(route.hostnames) :
        \A s \in 1..Len(c.domain_suffixes) :
            ~EndsWith(route.hostnames[h], c.domain_suffixes[s])

\* C5: should_include follows the stated policy.  With both allow-lists empty
\* it returns true iff the enable annotation, lower-cased, is "true"; with
\* either list non-empty it returns false iff the enable annotation,
\* lower-cased, is "false", or the gateway list is non-empty and names no
\* parent reference, or the suffix list is non-empty and no hostname ends
\* with one of its suffixes.
C5_FilterPolicy ==
    pc # "call" =>
        ret[1] = ~(\/ ExcludedByEnable(args.route, cfg)
                   \/ ExcludedByGateway(args.route, cfg)
                   \/ ExcludedBySuffix(args.route, cfg))

\* A route in opt-out mode that only the suffix rule excludes
C5_Witness ==
    /\ pc = "returned"
    /\ ret[1] = FALSE
    /\ cfg.gateway_names # <<>>
    /\ cfg.domain_suffixes # <<>>
    /\ EnableOf(args.route) = E_True
    /\ ~ExcludedByGateway(args.route, cfg)
    /\ args.route.hostnames # <<>>

\* C6 as stated: a route without hostnames that neither its enable
\* annotation nor the gateway allow-list excludes is included by
\* should_include, under every filter configuration, and the extractor
\* drops it.
C6_HostlessPassesFilter ==
    (/\ pc # "call"
     /\ args.route.hostnames = <<>>
     /\ ~ExcludedByEnable(args.route, cfg)
     /\ ~ExcludedByGateway(args.route, cfg))
    => /\ ret[1] = TRUE
       /\ pc = "extracted" => ret[2] = "skipped"

\* C6 amended: such a route is included by should_include exactly when the
\* hostname-suffix allow-list is empty, and is then dropped by the extractor;
\* with a non-empty suffix allow-list should_include itself excludes it.
C6_HostlessPassesWithoutSuffixList ==
    (/\ pc # "call"
     /\ args.route.hostnames = <<>>
     /\ ~ExcludedByEnable(args.route, cfg)
     /\ ~ExcludedByGateway(args.route, cfg))
    => /\ ret[1] = (cfg.domain_suffixes = <<>>)
       /\ pc = "extracted" => ret[2] = "skipped"

\* A route without hostnames behind a gateway allow-list alone: included,
\* then skipped by extract_item
C6_Witness ==
    /\ pc = "extracted"
    /\ args.route.hostnames = <<>>
    /\ cfg.gateway_names # <<>>
    /\ cfg.domain_suffixes = <<>>
    /\ ret = <<TRUE, "skipped">>

(***************************************************************************)
(* Properties of the annotation resolver (ResolverSpec)                    *)
(***************************************************************************)
\* C9: namespace_group_icon returns the group-icon annotation only when it is
\* present and non-empty, and the default icon otherwise; the result is
\* never empty.
C9_GroupIconDefault ==
    (pc = "returned" /\ ret[1] = "group_icon") =>
        /\ ret[2] = IF /\ Key("group-icon") \in DOMAIN args.ns_annotations
                       /\ args.ns_annotations[Key("group-icon")] # ""
                    THEN args.ns_annotations[Key("group-icon")]
                    ELSE DefaultIcon
        /\ ret[2] # ""

(***************************************************************************)
(* Properties of the extractor (ExtractSpec)                               *)
(***************************************************************************)
\* The icon the override rule names: that of the first namespace, in list
\* order, whose own derived group name is the group; else the default.
FirstDerivingNamespaceIcon(group, nsm) ==
    LET hits == {k \in 1..Len(nsm) : namespace_group_name(nsm[k][1], nsm[k][2]) = group}
    IN  IF hits = {} THEN DefaultIcon
        ELSE namespace_group_icon(nsm[CHOOSE k \in hits : \A j \in hits : k <= j][2])

\* C7: for a route with a non-empty group override G that is not yet in the
\* cache, the item's group icon is the resolved icon of the first namespace N
\* with groupName(N, annotations of N) = G, whatever the route's namespace;
\* the default icon when no namespace derives G.
C7_OverrideIconFromDerivingNamespace ==
    (/\ pc = "returned"
     /\ ret[1].status = "item"
     /\ Get(args.route.annotations, Key("group"), <<>>) # <<>>
     /\ ~Has(args.cache, args.route.annotations[Key("group")]))
    => ret[1].item.group_icon =
          FirstDerivingNamespaceIcon(args.route.annotations[Key("group")], args.ns_map)

(***************************************************************************)
(* Properties of the publish step (PublishSpec)                            *)
(***************************************************************************)
StoredText(store) == Get(store[1].data, ConfigKey, EmptyText)

\* C1: two calls in a row with the same text, no other writer, the object
\* initially absent or holding a different text, both calls returning: the
\* first call makes exactly one write (create or replace), the second none.
C1_SecondPublishWritesNothing ==
    (/\ Len(ret) = 2
     /\ args.store = <<>> \/ StoredText(args.store) # args.rendered
     /\ ret[1].result # "Raised"
     /\ ret[2].result # "Raised")
    => /\ ret[1].writes = 1
       /\ ret[1].result \in {"Created", "Updated"}
       /\ ret[2].writes = 0
       /\ ret[2].result = "Unchanged"

\* An update followed by a call that finds the text in place
C1_Witness ==
    /\ Len(ret) = 2
    /\ ret[1].result = "Updated"
    /\ ret[1].writes = 1
    /\ ret[2].result = "Unchanged"

\* C8: an update overwrites only the text under the fixed key: the metadata
\* and every other data key are after the update what they were before.
C8_UpdateKeepsOtherFields ==
    \A n \in 1..Len(ret) :
        ret[n].result = "Updated" =>
            LET before == ret[n].before[1]
                after  == ret[n].after[1]
            IN  /\ after.metadata = before.metadata
                /\ \A k \in DOMAIN before.data \ {ConfigKey} :
                    k \in DOMAIN after.data /\ after.data[k] = before.data[k]

(***************************************************************************)
(* Properties of the reconciliation cycle and the daemon loop (Spec)       *)
(***************************************************************************)
\* The routes of this cycle that the loop turns into items
Yielding(k) == should_include(routes[k], cfg) /\ routes[k].hostnames # <<>>

\* C2: a cycle that fails (while fetching, extracting, rendering, reading or
\* writing) leaves the stored object as it was, and whenever the stored
\* object changes it is the publish step of a cycle that completes, storing
\* the whole manifest rendered from the items of all routes of that cycle.
C2_OnlyCompleteManifestsStored ==
    [][/\ outcome'.status = "error" => configmap' = configmap
       /\ configmap' # configmap =>
            /\ pc = "publish"
            /\ outcome'.status = "ok"
            /\ outcome'.result \in {"Created", "Updated"}
            /\ StoredText(configmap') = rendered
            /\ rendered = render_config(items, cfg)
            /\ i = Len(routes) + 1
            /\ Len(items) = Cardinality({k \in 1..Len(routes) : Yielding(k)})]_vars

\* A cycle has failed while the object holds the manifest, with at least one
\* group, that an earlier cycle published
C2_Witness ==
    /\ pc = "sleep"
    /\ outcome.status = "error"
    /\ outcome.step \in {"render", "publish"}
    /\ configmap # <<>>
    /\ Len(StoredText(configmap)) = 2
    /\ StoredText(configmap)[2] # <<>>

\* C3: in daemon mode a cycle that raises at any step does not end the
\* loop: the process goes to sleep and a next cycle is eventually started.
C3_DaemonSurvivesFailedCycle ==
    /\ [](cfg.daemon_mode => pc \notin {"crashed", "exited"})
    /\ [](cfg.daemon_mode /\ outcome.status = "error" => pc = "sleep")
    /\ (cfg.daemon_mode /\ outcome.status = "error")
          ~> (pc = "fetch" /\ outcome.status = "running")

\* The daemon asleep after a cycle that failed in the publish step
C3_Witness ==
    /\ cfg.daemon_mode
    /\ pc = "sleep"
    /\ outcome.status = "error"
    /\ outcome.step = "publish"

\* A per-item data failure: no hostname, or a sort annotation int() rejects
PerItemDataFailure(route) ==
    \/ route.hostnames = <<>>
    \/ ~ParseInt(Get(route.annotations, Key("sort"), <<"0">>)).ok

\* C4: a per-item data failure on an included route skips that route only:
\* the cycle is not aborted by it, the items collected so far are kept and
\* the loop goes on to the next route or to rendering.
C4_DataFailureSkipsOnlyTheRoute ==
    [][(/\ pc = "loop"
        /\ should_include(routes[i], cfg)
        /\ PerItemDataFailure(routes[i]))
       => /\ pc' \in {"loop", "render"}
          /\ i' = i + 1
          /\ items' = items
          /\ outcome' = outcome]_vars

\* The group a route's item belongs to
GroupOf(route) ==
    LET override == Get(route.annotations, Key("group"), <<>>)
    IN  IF override # <<>> THEN override
        ELSE namespace_group_name(route.namespace,
                 IF Has(ns_map, route.namespace) THEN At(ns_map, route.namespace)
                 ELSE NoAnnotations)

\* The index in routes of the route that gave the n-th item
RECURSIVE RouteOfItem(_, _)
RouteOfItem(n, from) ==
    IF Yielding(from)
    THEN IF n = 1 THEN from ELSE RouteOfItem(n - 1, from + 1)
    ELSE RouteOfItem(n, from + 1)

\* The first route of the cycle that yields an item of the group
FirstOfGroup(g) ==
    CHOOSE k \in 1..Len(routes) :
        /\ Yielding(k) /\ GroupOf(routes[k]) = g
        /\ \A j \in 1..(k-1) : ~(Yielding(j) /\ GroupOf(routes[j]) = g)

CacheStartsEmpty ==
    (pc = "fetch" /\ pc' # pc /\ outcome'.status # "error") => group_icon_cache' = <<>>

CacheEntriesKept ==
    pc \in {"loop", "render", "publish"} =>
        \A k \in 1..Len(group_icon_cache) :
            /\ Has(group_icon_cache', group_icon_cache[k][1])
            /\ At(group_icon_cache', group_icon_cache[k][1]) = group_icon_cache[k][2]

\* C10: the cache is empty when a cycle starts, an entry once written keeps
\* its value for the rest of the cycle, and every item carries the icon
\* resolved, from this cycle's namespaces alone, for the first route of its
\* group: items of one group share one icon and no binding of an earlier
\* cycle is used.
C10_CachePerCycle ==
    /\ [][CacheStartsEmpty]_vars
    /\ [][CacheEntriesKept]_vars
    /\ [](\A n \in 1..Len(items) :
            /\ Has(group_icon_cache, items[n].group)
            /\ items[n].group_icon = At(group_icon_cache, items[n].group)
            /\ items[n].group_icon =
                 extract_item(routes[FirstOfGroup(items[n].group)], ns_map, <<>>).item.group_icon
            /\ \A m \in 1..Len(items) :
                 items[m].group = items[n].group => items[m].group_icon = items[n].group_icon)

\* Two items of one group, the second carrying the icon cached for the
\* first although its own route would have resolved another one
C10_Witness ==
    /\ Len(items) = 2
    /\ items[1].group = items[2].group
    /\ items[1].group_icon = items[2].group_icon
    /\ extract_item(routes[RouteOfItem(2, 1)], ns_map, <<>>).item.group_icon
         # items[2].group_icon

====
